---- MODULE Spec2Model ----
(***************************************************************************)
(* Model of the quiz-solving agent: the LangGraph control loop of          *)
(* src/agent.py (agent_node, route, handle_malformed, the tools node),     *)
(* its history compaction trim_messages, and the submission tool           *)
(* post_request of src/tools/send_request.py.                              *)
(*                                                                         *)
(* Strings are tuples of one-character strings, so that upper-casing,      *)
(* substring search and replacement are computed, not assumed.             *)
(***************************************************************************)
EXTENDS Integers, Sequences, FiniteSets, TLC

(***************************************************************************)
(* Bounds of the model                                                     *)
(***************************************************************************)
\* entries the Base64 placeholder store can hold
MaxStore == 2
\* node executions allowed in one graph.invoke; stands for recursion_limit
\* (5000 in run_agent), scaled down
StepCeiling == 3
\* tool invocations carried by one model reply
MaxCalls == 2

(***************************************************************************)
(* Program constants                                                       *)
(***************************************************************************)
max_tokens == 60000
QuizTimeout == 180
SystemPromptLen == 2660
TaskPrefixLen == 17

\* clock readings time.time() can return, relative to the task start
TimePoints == {0, 180, 181}
\* len(str(content)) of a tool result: a short one, and one that alone is
\* more than half of the budget of 4 * max_tokens characters
ToolSizes == {20, 130000}
\* len(url) of the task URL handed to run_agent
UrlSizes == {30, 250000}

(***************************************************************************)
(* Strings                                                                 *)
(***************************************************************************)
LowerCase == <<"a","b","c","d","e","f","g","h","i","j","k","l","m",
               "n","o","p","q","r","s","t","u","v","w","x","y","z">>
UpperCase == <<"A","B","C","D","E","F","G","H","I","J","K","L","M",
               "N","O","P","Q","R","S","T","U","V","W","X","Y","Z">>

\* str.upper() on one character
UpperChar(c) ==
    IF \E i \in 1..26 : LowerCase[i] = c
    THEN UpperCase[CHOOSE i \in 1..26 : LowerCase[i] = c]
    ELSE c

\* str.upper()
Upper(s) == [i \in 1..Len(s) |-> UpperChar(s[i])]

\* pat in s
Contains(s, pat) ==
    \E i \in 1..(Len(s) - Len(pat) + 1) : SubSeq(s, i, i + Len(pat) - 1) = pat

KW_END == <<"E","N","D">>
KW_COMPLETE == <<"C","O","M","P","L","E","T","E">>
KW_FINISHED == <<"F","I","N","I","S","H","E","D">>

\* content of the reply agent_node fabricates on timeout
TimeoutText == <<"T","I","M","E","O","U","T"," ","-"," ","s","u","b","m","i","t",
                 "t","i","n","g"," ","f","a","l","l","b","a","c","k"," ",
                 "a","n","s","w","e","r">>

\* content of the corrective ToolMessage of handle_malformed, by its length
MalformedTextLen == 61

(***************************************************************************)
(* Messages                                                                *)
(***************************************************************************)
NoCalls == <<>>

SystemMessage == [type |-> "system", content |-> <<>>, size |-> SystemPromptLen,
                  tool_calls |-> NoCalls, tool_call_id |-> 0, finish |-> "",
                  corrective |-> FALSE]

HumanMessage(urlLen) ==
    [type |-> "human", content |-> <<>>, size |-> TaskPrefixLen + urlLen,
     tool_calls |-> NoCalls, tool_call_id |-> 0, finish |-> "",
     corrective |-> FALSE]

AIMessage(text, calls, fin) ==
    [type |-> "ai", content |-> text, size |-> Len(text),
     tool_calls |-> calls, tool_call_id |-> 0, finish |-> fin,
     corrective |-> FALSE]

ToolMessage(sz, id, corr) ==
    [type |-> "tool", content |-> <<>>, size |-> sz,
     tool_calls |-> NoCalls, tool_call_id |-> id, finish |-> "",
     corrective |-> corr]

IsSystem(m) == m.type = "system"
NotSystem(m) == m.type # "system"

RECURSIVE SumSizes(_)
SumSizes(ms) == IF ms = <<>> THEN 0 ELSE ms[1].size + SumSizes(Tail(ms))

\* lst[-k:] of Python: for k = 0 this is lst[0:], the whole list
PySliceLast(lst, k) ==
    IF k = 0 THEN lst ELSE SubSeq(lst, Len(lst) - k + 1, Len(lst))

\* int(n * 0.6)
KeepCount(n) == (n * 6) \div 10

estimated_tokens(messages) == SumSizes(messages) \div 4

\* trim_messages as it would be if it returned the kept recent messages alone
trim_messages_recentOnly(messages) ==
    IF messages = <<>> THEN messages
    ELSE IF estimated_tokens(messages) <= max_tokens THEN messages
    ELSE LET other_msgs == SelectSeq(messages, NotSystem)
         IN  PySliceLast(other_msgs, KeepCount(Len(other_msgs)))

\* trim_messages as it would be without the test of line 132
trim_messages_alwaysTrims(messages) ==
    IF messages = <<>> THEN messages
    ELSE LET system_msgs == SelectSeq(messages, IsSystem)
             other_msgs == SelectSeq(messages, NotSystem)
         IN  system_msgs \o PySliceLast(other_msgs, KeepCount(Len(other_msgs)))

\* trim_messages, lines 121-143
trim_messages(messages) ==
    IF messages = <<>> THEN messages
    ELSE IF estimated_tokens(messages) <= max_tokens THEN messages
    ELSE LET system_msgs == SelectSeq(messages, IsSystem)
             other_msgs == SelectSeq(messages, NotSystem)
             keep_count == KeepCount(Len(other_msgs))
         IN  system_msgs \o PySliceLast(other_msgs, keep_count)

(***************************************************************************)
(* JSON values, dictionaries and their serialisation                       *)
(***************************************************************************)
\* a JSON value of a payload: a string or null (None)
Str(s) == [t |-> "str", s |-> s]
None == [t |-> "null", s |-> <<>>]

\* a dict is the sequence of its items [k, v] in insertion order
HasKey(d, k) == \E i \in 1..Len(d) : d[i].k = k
Get(d, k) == d[CHOOSE i \in 1..Len(d) : d[i].k = k].v
\* d[k] = v
SetItem(d, k, v) ==
    IF HasKey(d, k)
    THEN [i \in 1..Len(d) |-> IF d[i].k = k THEN [k |-> k, v |-> v] ELSE d[i]]
    ELSE Append(d, [k |-> k, v |-> v])

QUOTE == "\""
BACKSLASH == "\\"

\* the least element of a non-empty set of positions
FirstOf(S) == CHOOSE i \in S : \A j \in S : i <= j

\* the escaping of a string inside json.dumps: a backslash before every
\* quote and every backslash
RECURSIVE Escape(_)
Escape(s) ==
    LET special == { i \in 1..Len(s) : s[i] = QUOTE \/ s[i] = BACKSLASH }
    IN  IF special = {} THEN s
        ELSE LET i == FirstOf(special)
             IN  SubSeq(s, 1, i - 1) \o <<BACKSLASH, s[i]>>
                   \o Escape(SubSeq(s, i + 1, Len(s)))

DumpsString(s) == <<QUOTE>> \o Escape(s) \o <<QUOTE>>
DumpsValue(v) == IF v.t = "null" THEN <<"n","u","l","l">> ELSE DumpsString(v.s)

RECURSIVE DumpsItems(_)
DumpsItems(d) ==
    IF d = <<>> THEN <<>>
    ELSE DumpsString(d[1].k) \o <<":", " ">> \o DumpsValue(d[1].v)
           \o (IF Len(d) > 1 THEN <<",", " ">> ELSE <<>>) \o DumpsItems(Tail(d))

\* json.dumps(d) with the default separators
Dumps(d) == <<"{">> \o DumpsItems(d) \o <<"}">>

\* reads the JSON string whose opening quote is before position i of str:
\* up to the next quote, taking the character after a backslash as it is
RECURSIVE ScanString(_, _, _)
ScanString(str, i, acc) ==
    LET special == { j \in i..Len(str) : str[j] = QUOTE \/ str[j] = BACKSLASH }
        j == FirstOf(special)
    IN  IF str[j] = QUOTE
        THEN [val |-> acc \o SubSeq(str, i, j - 1), next |-> j + 1]
        ELSE ScanString(str, j + 2, acc \o SubSeq(str, i, j - 1) \o <<str[j + 1]>>)

\* reads the JSON value at position i of str
ScanValue(str, i) ==
    IF str[i] = QUOTE
    THEN LET r == ScanString(str, i + 1, <<>>) IN [val |-> Str(r.val), next |-> r.next]
    ELSE [val |-> None, next |-> i + 4]

\* reads the members of a JSON object from position i of str into the dict d
RECURSIVE ScanItems(_, _, _)
ScanItems(str, i, d) ==
    IF str[i] = "}" THEN d
    ELSE LET key == ScanString(str, i + 1, <<>>)
             val == ScanValue(str, key.next + 2)
             d2 == SetItem(d, key.val, val.val)
         IN  IF str[val.next] = ","
             THEN ScanItems(str, val.next + 2, d2)
             ELSE ScanItems(str, val.next, d2)

\* json.loads of a serialised object
Loads(str) == ScanItems(str, 2, <<>>)

\* str.replace(old, new): every non-overlapping occurrence, left to right
RECURSIVE Replace(_, _, _)
Replace(s, old, new) ==
    LET hits == { i \in 1..(Len(s) - Len(old) + 1) :
                    SubSeq(s, i, i + Len(old) - 1) = old }
    IN  IF hits = {} THEN s
        ELSE LET i == FirstOf(hits)
             IN  SubSeq(s, 1, i - 1) \o new
                   \o Replace(SubSeq(s, i + Len(old), Len(s)), old, new)

(***************************************************************************)
(* Base64 placeholders                                                     *)
(***************************************************************************)
B64Alphabet == <<"A","B","C","D","E","F","G","H","I","J","K","L","M",
                 "N","O","P","Q","R","S","T","U","V","W","X","Y","Z",
                 "a","b","c","d","e","f","g","h","i","j","k","l","m",
                 "n","o","p","q","r","s","t","u","v","w","x","y","z",
                 "0","1","2","3","4","5","6","7","8","9","+","/">>

\* base64 of one group of one to three bytes
B64Group(bs) ==
    LET n == Len(bs)
        v == bs[1] * 65536 + (IF n >= 2 THEN bs[2] * 256 ELSE 0)
                + (IF n >= 3 THEN bs[3] ELSE 0)
    IN  << B64Alphabet[(v \div 262144) + 1],
           B64Alphabet[((v \div 4096) % 64) + 1],
           IF n >= 2 THEN B64Alphabet[((v \div 64) % 64) + 1] ELSE "=",
           IF n >= 3 THEN B64Alphabet[(v % 64) + 1] ELSE "=" >>

\* base64.b64encode(image_data).decode('utf-8')
RECURSIVE b64encode(_)
b64encode(bs) ==
    IF bs = <<>> THEN <<>>
    ELSE IF Len(bs) <= 3 THEN B64Group(bs)
    ELSE B64Group(SubSeq(bs, 1, 3)) \o b64encode(SubSeq(bs, 4, Len(bs)))

PlaceholderPrefix == <<"B","A","S","E","6","4","_","K","E","Y",":">>

\* f"BASE64_KEY:{key}"; a uuid is one symbol, as uuids have a fixed length
\* and a fixed shape and none is part of another
Placeholder(key) == PlaceholderPrefix \o <<key>>

\* the loop of post_request as it would be if it stopped after the first
\* entry of the store
ReplacePlaceholders_firstEntryOnly(payload_str, items) ==
    IF items = <<>> THEN payload_str
    ELSE Replace(payload_str, Placeholder(items[1].k), items[1].v)

\* the loop over BASE64_STORE.items() of post_request, lines 67-71
RECURSIVE ReplacePlaceholders(_, _)
ReplacePlaceholders(payload_str, items) ==
    IF items = <<>> THEN payload_str
    ELSE ReplacePlaceholders(
             Replace(payload_str, Placeholder(items[1].k), items[1].v),
             Tail(items))

\* values of EMAIL and SECRET in a configured environment
ConfiguredEmail == Str(<<"c","e">>)
ConfiguredSecret == Str(<<"c","s">>)

KeyEmail == <<"e","m","a","i","l">>
KeySecret == <<"s","e","c","r","e","t">>
KeyAnswer == <<"a","n","s","w","e","r">>

\* post_request as it would be if it always wrote the configured identity
EnsureIdentity_overwrite(payload, email, secret) ==
    SetItem(SetItem(payload, KeyEmail, email), KeySecret, secret)

\* post_request, lines 60-63
EnsureIdentity(payload, email, secret) ==
    LET p1 == IF ~HasKey(payload, KeyEmail)
              THEN SetItem(payload, KeyEmail, email) ELSE payload
    IN  IF ~HasKey(p1, KeySecret) THEN SetItem(p1, KeySecret, secret) ELSE p1

\* post_request, lines 56-73: the payload handed to requests.post
PreparePayload(payload, email, secret, store) ==
    Loads(ReplacePlaceholders(Dumps(EnsureIdentity(payload, email, secret)), store))

(***************************************************************************)
(* Model replies                                                           *)
(***************************************************************************)
\* what a tool invocation of a reply can look like: complete, without a
\* name, without arguments
CallShapes == { [name |-> "run_code", args |-> {"code"}],
                [name |-> "",         args |-> {"code"}],
                [name |-> "run_code", args |-> {}] }

\* the tool_calls lists a reply can carry; call ids are fresh, from first on
CallLists(first) ==
    UNION { { [i \in 1..k |-> [id |-> first + i - 1, name |-> f[i].name,
                               args |-> f[i].args]] :
                f \in [1..k -> CallShapes] } : k \in 1..MaxCalls }

\* texts of a reply without tool invocations
PlainTexts == { <<"o","k">>,
                <<"E","N","D">>,
                <<" ","E","N","D"," ">>,
                <<"e","n","d">>,
                <<"C","O","M","P","L","E","T","E",".">>,
                <<"F","I","N","I","S","H","E","D">> }
\* texts of a reply with tool invocations
CallTexts == { <<>>, <<"E","N","D">> }

\* texts of a reply the backend reports as a malformed function call
MalformedTexts == { <<>>, <<"o","k">> }

\* the replies a backend can return when the next free call id is first;
\* finish is the finish_reason the backend reports with the reply
Replies(first) ==
    { AIMessage(t, NoCalls, "stop") : t \in PlainTexts }
    \cup
    { AIMessage(t, NoCalls, "MALFORMED_FUNCTION_CALL") : t \in MalformedTexts }
    \cup
    { AIMessage(t, c, "tool_calls") : t \in CallTexts, c \in CallLists(first) }

\* outcomes of llm_with_tools.invoke and of llm_gemini_with_tools.invoke
PrimaryOutcomes == {"ok", "RateLimitError", "Exception"}
FallbackOutcomes == {"ok", "Exception"}

(***************************************************************************)
(* State                                                                   *)
(***************************************************************************)
VARIABLES
    messages,      \* State["messages"] of the running graph
    quiz_number,   \* State["quiz_number"]
    start_time,    \* State["start_time"]
    url_time,      \* shared.url_time: "current_url" and one start time per URL
    pc,            \* node the graph runs next: agent, route, tools,
                   \* handle_malformed, END, error
    steps,         \* node executions of this graph.invoke so far
    now,           \* last reading of time.time()
    invocations,   \* backend invocations made by the agent_node execution
                   \* that has just returned, in order; empty otherwise
    executed,      \* call ids the tools node has executed
    nextId,        \* next fresh tool call id
    err,           \* exception that ended graph.invoke, "" if none
    EMAIL,         \* os.getenv("EMAIL")
    SECRET,        \* os.getenv("SECRET")
    BASE64_STORE,  \* shared.BASE64_STORE: entries (key, value) in insertion order
    sp_pc,         \* position of the latest post_request call
    sp_payload,    \* payload argument of the latest post_request call
    sp_body,       \* JSON body post_request hands to requests.post
    clock,         \* time.time() as the submission tool sees it
    request_times, \* send_request.request_times
    max_retries,   \* argument of the post_request call under way
    attempt,       \* local attempt of that call
    attempts,      \* the attempts that call has dispatched, in order
    response,      \* what requests.post gave to the latest attempt
    recent,        \* dispatch times less than TIME_WINDOW before the latest
    rq_pc,         \* idle, loop, returned or raised
    rq_outcome,    \* what the call returned
    chain_url,     \* current_url of run_agent
    chain_pc,      \* run_agent: loop, invoke, returned or raised
    started,       \* the task runs run_agent has started: url and ordinal
    caught,        \* exception run_agent has caught, "" if none
    answer,        \* the latest answer of POST /solve, with its request
    scheduled,     \* the arguments of background_tasks.add_task(run_agent, ...)
    chains,        \* the run_agent calls made for the scheduled tasks
    tool_results,  \* what the tool calls made so far have returned
    log            \* records post_request has written to the log

agentVars == <<messages, quiz_number, start_time, url_time, pc, steps, now,
               invocations, executed, nextId, err>>
submitVars == <<EMAIL, SECRET, BASE64_STORE, sp_pc, sp_payload, sp_body>>
requestVars == <<clock, request_times, max_retries, attempt, attempts,
                 response, recent, rq_pc, rq_outcome>>
chainVars == <<chain_url, chain_pc, started, caught>>
serverVars == <<answer, scheduled, chains>>
toolVars == <<tool_results, log>>
vars == <<agentVars, submitVars, requestVars, chainVars, serverVars,
         toolVars>>

outsideAgent == <<submitVars, requestVars, chainVars, serverVars, toolVars>>
outsideSubmit == <<agentVars, requestVars, chainVars, serverVars, toolVars>>
outsideRequest == <<agentVars, submitVars, chainVars, serverVars, toolVars>>
outsideChain == <<submitVars, requestVars, serverVars, toolVars>>

\* no outcome yet
NoOutcome == [pending |-> TRUE]

\* no answer yet
NoResponse == [kind |-> "none"]

TaskUrl == "u1"

\* run_agent is inside the graph.invoke of its first task, on TaskUrl
ChainInTask ==
    /\ chain_url = TaskUrl
    /\ chain_pc = "invoke"
    /\ started = <<[url |-> TaskUrl, quiz_number |-> 1]>>
    /\ caught = ""

\* one POST /solve has been accepted and its chain is the only one
ServerOneChain ==
    /\ answer = [n |-> 0]
    /\ scheduled = <<>>
    /\ chains = <<>>

\* no tool has been called yet and nothing has been logged
ToolsIdle == tool_results = <<>> /\ log = <<>>

\* send_request.py at import, line 20, and no post_request call under way
RequestIdle ==
    /\ clock = 0
    /\ request_times = <<>>
    /\ max_retries = 0
    /\ attempt = 0
    /\ attempts = <<>>
    /\ response = NoResponse
    /\ recent = <<>>
    /\ rq_pc = "idle"
    /\ rq_outcome = NoOutcome

Last(s) == s[Len(s)]

\* run_agent, lines 295-305: the task is registered in url_time and the
\* conversation is seeded with the system instruction and the task message
Init ==
    /\ \E n \in UrlSizes : messages = <<SystemMessage, HumanMessage(n)>>
    /\ quiz_number = 1
    /\ start_time = 0
    /\ url_time = [k \in {"current_url", TaskUrl} |->
                     IF k = "current_url" THEN TaskUrl ELSE 0]
    /\ pc = "agent"
    /\ steps = 0
    /\ now = 0
    /\ invocations = <<>>
    /\ executed = {}
    /\ nextId = 1
    /\ err = ""
    /\ EMAIL = ConfiguredEmail
    /\ SECRET = ConfiguredSecret
    /\ BASE64_STORE = <<>>
    /\ sp_pc = "idle"
    /\ sp_payload = <<>>
    /\ sp_body = <<>>
    /\ RequestIdle
    /\ ChainInTask
    /\ ServerOneChain
    /\ ToolsIdle

\* quiz_elapsed of agent_node at clock reading t; -1 when the store has no
\* entry for the current task
QuizElapsed(t) ==
    LET current_url == url_time["current_url"]
    IN  IF current_url # "" /\ current_url \in DOMAIN url_time
        THEN t - url_time[current_url]
        ELSE 0 - 1

TimedOut(t) == QuizElapsed(t) > QuizTimeout

\* one call of <backend>.invoke(messages): its argument, how it ended and
\* the reply it returned
NoReply == [type |-> "none"]
Invocation(b, in, out, r) == [backend |-> b, input |-> in, outcome |-> out, reply |-> r]

\* the except clauses of agent_node, lines 182-193: the outcomes of the
\* primary backend after which the fallback backend is invoked
UsesFallback_catchRateLimitOnly(p) == p = "RateLimitError"
UsesFallback(p) == p \in {"RateLimitError", "Exception"}

\* agent_node, lines 145-206
agent_node ==
    /\ pc = "agent"
    /\ steps < StepCeiling
    /\ steps' = steps + 1
    /\ \E t \in TimePoints :
        /\ t >= now
        /\ now' = t
        /\ IF TimedOut(t)
           THEN /\ messages' = Append(messages, AIMessage(TimeoutText, NoCalls, "stop"))
                /\ invocations' = <<>>
                /\ pc' = "route"
                /\ UNCHANGED <<nextId, err>>
           ELSE LET msgs == trim_messages(messages) IN
                \E p \in PrimaryOutcomes :
                  IF p = "ok"
                  THEN \E r \in Replies(nextId) :
                         /\ invocations' = <<Invocation("primary", msgs, "ok", r)>>
                         /\ messages' = Append(messages, r)
                         /\ nextId' = nextId + Len(r.tool_calls)
                         /\ pc' = "route"
                         /\ UNCHANGED err
                  ELSE IF UsesFallback(p)
                  THEN \E f \in FallbackOutcomes :
                         IF f = "ok"
                         THEN \E r \in Replies(nextId) :
                                /\ invocations' = <<Invocation("primary", msgs, p, NoReply),
                                                    Invocation("fallback", msgs, "ok", r)>>
                                /\ messages' = Append(messages, r)
                                /\ nextId' = nextId + Len(r.tool_calls)
                                /\ pc' = "route"
                                /\ UNCHANGED err
                         ELSE /\ invocations' = <<Invocation("primary", msgs, p, NoReply),
                                                  Invocation("fallback", msgs, f, NoReply)>>
                              /\ pc' = "error"
                              /\ err' = "BackendError"
                              /\ UNCHANGED <<messages, nextId>>
                  ELSE /\ invocations' = <<Invocation("primary", msgs, p, NoReply)>>
                       /\ pc' = "error"
                       /\ err' = "BackendError"
                       /\ UNCHANGED <<messages, nextId>>
    /\ UNCHANGED <<quiz_number, start_time, url_time, executed>>
    /\ UNCHANGED outsideAgent

\* tool_call.get("name") and tool_call.get("args") are both truthy
CallComplete(tc) == tc.name # "" /\ tc.args # {}

\* the end test as it would be with the token END alone
HasEndSignal_endOnly(text) == Contains(Upper(text), KW_END)

\* the end signals of route, lines 250-252
HasEndSignal(text) ==
    LET content == Upper(text)
    IN  Contains(content, KW_END) \/ Contains(content, KW_COMPLETE)
          \/ Contains(content, KW_FINISHED)

\* route as it would be if only the first invocation were inspected
route_firstCallOnly(msgs) ==
    LET last_message == Last(msgs) IN
    IF last_message.type = "ai"
    THEN IF last_message.tool_calls # NoCalls
         THEN IF ~CallComplete(last_message.tool_calls[1])
              THEN "handle_malformed"
              ELSE "tools"
         ELSE IF HasEndSignal(last_message.content) THEN "END" ELSE "agent"
    ELSE "agent"

\* route as it would be if it looked for an end signal in every reply of
\* the conversation
route_anyReplyEnds(msgs) ==
    LET last_message == Last(msgs) IN
    IF last_message.type = "ai"
    THEN IF last_message.tool_calls # NoCalls
         THEN IF \E i \in 1..Len(last_message.tool_calls) :
                     ~CallComplete(last_message.tool_calls[i])
              THEN "handle_malformed"
              ELSE "tools"
         ELSE IF \E j \in 1..Len(msgs) :
                    msgs[j].type = "ai" /\ HasEndSignal(msgs[j].content)
              THEN "END" ELSE "agent"
    ELSE "agent"

\* route, lines 232-257
route(msgs) ==
    LET last_message == Last(msgs) IN
    IF last_message.type = "ai"
    THEN IF last_message.tool_calls # NoCalls
         THEN IF \E i \in 1..Len(last_message.tool_calls) :
                     ~CallComplete(last_message.tool_calls[i])
              THEN "handle_malformed"
              ELSE "tools"
         ELSE IF HasEndSignal(last_message.content) THEN "END" ELSE "agent"
    ELSE "agent"

\* the conditional edge after the agent node, line 268
RouteStep ==
    /\ pc = "route"
    /\ pc' = route(messages)
    /\ invocations' = <<>>
    /\ UNCHANGED <<messages, quiz_number, start_time, url_time, steps, now,
                   executed, nextId, err>>
    /\ UNCHANGED outsideAgent

\* the tools node as it would be if it executed the first invocation of
\* the reply only
ToolsNode_firstCallOnly ==
    /\ pc = "tools"
    /\ steps < StepCeiling
    /\ steps' = steps + 1
    /\ LET calls == Last(messages).tool_calls IN
       /\ \E sz \in ToolSizes :
            messages' = Append(messages, ToolMessage(sz, calls[1].id, FALSE))
       /\ executed' = executed \cup { calls[1].id }
    /\ pc' = "agent"
    /\ UNCHANGED <<quiz_number, start_time, url_time, now, invocations, nextId, err>>
    /\ UNCHANGED outsideAgent

\* ToolNode(tools), line 264, and the edge tools -> agent, line 269: one
\* tool result per invocation of the latest reply, in order
ToolsNode ==
    /\ pc = "tools"
    /\ steps < StepCeiling
    /\ steps' = steps + 1
    /\ LET calls == Last(messages).tool_calls IN
       /\ \E sz \in [1..Len(calls) -> ToolSizes] :
            messages' = messages \o
                [i \in 1..Len(calls) |-> ToolMessage(sz[i], calls[i].id, FALSE)]
       /\ executed' = executed \cup { calls[i].id : i \in 1..Len(calls) }
    /\ pc' = "agent"
    /\ UNCHANGED <<quiz_number, start_time, url_time, now, invocations, nextId, err>>
    /\ UNCHANGED outsideAgent

\* handle_malformed as it would be if it answered the incomplete
\* invocations only
CorrectiveMessages_incompleteOnly(msgs) ==
    LET last_message == Last(msgs)
        bad == SelectSeq(last_message.tool_calls, LAMBDA tc : ~CallComplete(tc))
    IN  IF last_message.type = "ai"
        THEN [i \in 1..Len(bad) |-> ToolMessage(MalformedTextLen, bad[i].id, TRUE)]
        ELSE <<>>

\* the messages handle_malformed returns for the conversation msgs,
\* lines 215-223
CorrectiveMessages(msgs) ==
    LET last_message == Last(msgs) IN
    IF last_message.type = "ai"
    THEN [i \in 1..Len(last_message.tool_calls) |->
            ToolMessage(MalformedTextLen, last_message.tool_calls[i].id, TRUE)]
    ELSE <<>>

\* handle_malformed as it would be if its messages took the place of the
\* offending reply
handle_malformed_dropsReply ==
    /\ pc = "handle_malformed"
    /\ steps < StepCeiling
    /\ steps' = steps + 1
    /\ messages' = SubSeq(messages, 1, Len(messages) - 1)
                       \o CorrectiveMessages(messages)
    /\ pc' = "agent"
    /\ UNCHANGED <<quiz_number, start_time, url_time, now, invocations,
                   executed, nextId, err>>
    /\ UNCHANGED outsideAgent

\* handle_malformed as it would be if the graph took a routing decision
\* after it
handle_malformed_thenRoutes ==
    /\ pc = "handle_malformed"
    /\ steps < StepCeiling
    /\ steps' = steps + 1
    /\ messages' = messages \o CorrectiveMessages(messages)
    /\ pc' = "route"
    /\ UNCHANGED <<quiz_number, start_time, url_time, now, invocations,
                   executed, nextId, err>>
    /\ UNCHANGED outsideAgent

\* handle_malformed, lines 208-230, and the edge handle_malformed -> agent
handle_malformed ==
    /\ pc = "handle_malformed"
    /\ steps < StepCeiling
    /\ steps' = steps + 1
    /\ messages' = messages \o CorrectiveMessages(messages)
    /\ pc' = "agent"
    /\ UNCHANGED <<quiz_number, start_time, url_time, now, invocations,
                   executed, nextId, err>>
    /\ UNCHANGED outsideAgent

\* graph.invoke as it would be without a recursion limit
RecursionError_noLimit ==
    /\ FALSE
    /\ UNCHANGED vars

\* graph.invoke with recursion_limit, lines 309-312: the step ceiling is
\* reached before the graph reached END
RecursionError ==
    /\ pc \in {"agent", "tools", "handle_malformed"}
    /\ steps >= StepCeiling
    /\ pc' = "error"
    /\ err' = "GraphRecursionError"
    /\ UNCHANGED <<messages, quiz_number, start_time, url_time, steps, now,
                   invocations, executed, nextId>>
    /\ UNCHANGED outsideAgent

Next ==
    \/ agent_node
    \/ RouteStep
    \/ ToolsNode
    \/ handle_malformed
    \/ RecursionError

Spec == Init /\ [][Next]_vars

\* the steps of the graph on replies that carry one tool invocation at most
LiveNext ==
    /\ Next
    /\ messages' # messages => Len(Last(messages').tool_calls) <= 1

\* graph.invoke runs the graph until it ends or raises: a node that can be
\* executed is executed, and every call a node makes returns or raises
SpecLive == Init /\ [][LiveNext]_vars /\ WF_vars(LiveNext)

(***************************************************************************)
(* The submission tool and the placeholder store                           *)
(***************************************************************************)
\* keys uuid.uuid4() can return
UuidPool == <<"k1", "k2", "k3", "k4">>
Uuids == { UuidPool[i] : i \in 1..MaxStore }

\* contents of the image files given to encode_image_to_base64
Files == { <<>>, <<77, 97>>, <<77, 97, 110, 33>> }

\* values of the fields of a payload the model can pass to post_request
PayloadValues ==
    { None,
      Str(<<"m","e">>),
      Str(Placeholder("k1")),
      Str(<<"q", QUOTE>> \o Placeholder("k2") \o <<BACKSLASH>>),
      Str(Placeholder("k2") \o <<"+">> \o Placeholder("k1")) }

\* payloads the model can pass to post_request: any of the fields email,
\* secret and answer, in this order, with any of the values
Payloads ==
    LET keys == <<KeyEmail, KeySecret, KeyAnswer>>
        Pick(present, val) ==
            LET items == [i \in 1..3 |-> [k |-> keys[i], v |-> val[i]]]
            IN  SelectSeq(items, LAMBDA it : \E i \in present : keys[i] = it.k)
    IN  { Pick(present, val) :
            present \in SUBSET (1..3), val \in [1..3 -> PayloadValues] }

SubmitInit ==
    /\ messages = <<SystemMessage, HumanMessage(30)>>
    /\ quiz_number = 1
    /\ start_time = 0
    /\ url_time = [k \in {"current_url", TaskUrl} |->
                     IF k = "current_url" THEN TaskUrl ELSE 0]
    /\ pc = "tools"
    /\ steps = 0
    /\ now = 0
    /\ invocations = <<>>
    /\ executed = {}
    /\ nextId = 1
    /\ err = ""
    /\ EMAIL \in {None, ConfiguredEmail}
    /\ SECRET \in {None, ConfiguredSecret}
    /\ BASE64_STORE = <<>>
    /\ sp_pc = "idle"
    /\ sp_payload = <<>>
    /\ sp_body = <<>>
    /\ RequestIdle
    /\ ChainInTask
    /\ ServerOneChain
    /\ ToolsIdle

\* encode_image_to_base64, src/tools/base64.py lines 29-68: the file is
\* read and stored under a fresh key, or it cannot be read and the store
\* is left alone
encode_image_to_base64 ==
    /\ sp_pc = "idle"
    /\ Len(BASE64_STORE) < MaxStore
    /\ \E image_data \in Files, key \in Uuids :
          /\ ~HasKey(BASE64_STORE, key)
          /\ BASE64_STORE' = SetItem(BASE64_STORE, key, b64encode(image_data))
    /\ UNCHANGED <<EMAIL, SECRET, sp_pc, sp_payload, sp_body>>
    /\ UNCHANGED outsideSubmit

\* post_request, lines 56-102: the payload is completed, its placeholders
\* are replaced and it is handed to requests.post
post_request ==
    /\ sp_pc = "idle"
    /\ \E payload \in Payloads :
          /\ sp_payload' = payload
          /\ sp_body' = PreparePayload(payload, EMAIL, SECRET, BASE64_STORE)
    /\ sp_pc' = "sent"
    /\ UNCHANGED <<EMAIL, SECRET, BASE64_STORE>>
    /\ UNCHANGED outsideSubmit

\* post_request returns its outcome, lines 133-168
post_request_return ==
    /\ sp_pc = "sent"
    /\ sp_pc' = "idle"
    /\ sp_payload' = <<>>
    /\ sp_body' = <<>>
    /\ UNCHANGED <<EMAIL, SECRET, BASE64_STORE>>
    /\ UNCHANGED outsideSubmit

SubmitNext ==
    \/ encode_image_to_base64
    \/ post_request
    \/ post_request_return

SpecSubmit == SubmitInit /\ [][SubmitNext]_vars

(***************************************************************************)
(* Submission attempts: check_rate_limit and the retry loop of             *)
(* post_request, src/tools/send_request.py lines 19-37 and 87-168          *)
(***************************************************************************)
MAX_REQUESTS == 4
TIME_WINDOW == 60

\* time.sleep(2) before a retry, lines 145 and 159
Backoff == 2

\* no call and no attempt begins after this time
MaxClock == 70

\* largest max_retries a call is given; the default is 4
MaxRetries == 4
RetryArgs == {0, 1, MaxRetries}

\* time between the return of one post_request call and the next call
Gaps == {0, 30}

\* check_rate_limit, lines 24-37, called at time t with request_times =
\* times: the new request_times and the time slept
check_rate_limit(times, t) ==
    LET kept == SelectSeq(times, LAMBDA x : t - x < TIME_WINDOW)
        full == Len(kept) >= MAX_REQUESTS
        wait_time == IF full THEN TIME_WINDOW - (t - kept[1]) ELSE 0
        slept == full /\ wait_time > 0
    IN  [request_times |-> Append(IF slept THEN <<>> ELSE kept, t),
         wait |-> IF slept THEN wait_time ELSE 0]

Bool(b) == [t |-> "bool", b |-> b]

\* bool(v) of Python for the values a response holds
Truthy(v) ==
    ~ \/ v.t = "null"
      \/ v.t = "str" /\ v.s = <<>>
      \/ v.t = "bool" /\ ~v.b

\* a or b
PyOr(a, b) == IF Truthy(a) THEN a ELSE b

\* d.get(k, default)
PyGet(d, k, default) == IF HasKey(d, k) THEN Get(d, k) ELSE default

Item(k, v) == [k |-> k, v |-> v]

Link1 == Str(<<"n","1">>)
Link2 == Str(<<"n","2">>)

\* bodies of the answers of the submit endpoint: JSON objects, JSON that is
\* not an object, text that is not JSON
Bodies ==
    { [json |-> "object",
       d |-> <<Item("correct", Bool(TRUE)), Item("reason", Str(<<"o","k">>)),
               Item("url", Link1)>>],
      [json |-> "object", d |-> <<Item("next_url", Link2)>>],
      [json |-> "object",
       d |-> <<Item("correct", Bool(FALSE)), Item("url", Str(<<>>)),
               Item("next_url", Link2)>>],
      [json |-> "object", d |-> <<>>],
      [json |-> "array"],
      [json |-> "none", text |-> <<"o","k">>] }

\* what requests.post does: it raises, or it returns a response
Responses ==
    { [kind |-> "exception", exc |-> e] : e \in {"ConnectionError", "Timeout"} }
    \cup { [kind |-> "http", status_code |-> 200, body |-> b] : b \in Bodies }
    \cup { [kind |-> "http", status_code |-> 500,
             body |-> [json |-> "none", text |-> <<"n","o">>]] }

\* lines 106-109: response.json(), or the text when that fails
ParseBody(body) ==
    IF body.json = "object" THEN [t |-> "dict", d |-> body.d]
    ELSE IF body.json = "array" THEN [t |-> "list"]
    ELSE [t |-> "dict", d |-> <<Item("text", Str(body.text))>>]

\* the exception handler as it would be if it caught connection errors only
Handles_connectionErrorOnly(exc) == exc = "ConnectionError"

\* except Exception, line 155
Handles(exc) == TRUE

\* the exception the body of the try raises on the response, "" if none:
\* requests.post raises, or data.get does on data that is not a dict
Raised(resp) ==
    IF resp.kind = "exception" THEN resp.exc
    ELSE IF resp.status_code = 200 /\ ParseBody(resp.body).t # "dict"
         THEN "AttributeError"
         ELSE ""

\* lines 133-140
SuccessOutcome(resp, att) ==
    LET data == ParseBody(resp.body)
    IN  [status_code |-> resp.status_code,
         correct |-> PyGet(data.d, "correct", Bool(FALSE)),
         reason |-> PyGet(data.d, "reason", Str(<<>>)),
         next_url |-> PyOr(PyGet(data.d, "url", None),
                           PyGet(data.d, "next_url", None)),
         data |-> data,
         attempt |-> att]

\* one pass of the loop body, lines 93-166, on the response to attempt att:
\* the call returns, retries after the backoff, or raises
AttemptResult(resp, att, maxr) ==
    LET exc == Raised(resp)
    IN  IF exc # ""
        THEN IF ~Handles(exc)
             THEN [next |-> "raised", outcome |-> NoOutcome]
             ELSE IF att < maxr
                  THEN [next |-> "retry", outcome |-> NoOutcome]
                  ELSE [next |-> "returned",
                        outcome |-> [error |-> exc, attempt |-> att]]
        ELSE IF resp.status_code = 200
             THEN [next |-> "returned", outcome |-> SuccessOutcome(resp, att)]
             ELSE IF att < maxr
                  THEN [next |-> "retry", outcome |-> NoOutcome]
                  ELSE [next |-> "returned",
                        outcome |-> [status_code |-> resp.status_code,
                                     error |-> <<"HTTP", resp.status_code>>,
                                     data |-> ParseBody(resp.body),
                                     attempt |-> att]]

\* the module has been imported and the agent's first task is under way
RequestInit ==
    /\ messages = <<SystemMessage, HumanMessage(30)>>
    /\ quiz_number = 1
    /\ start_time = 0
    /\ url_time = [k \in {"current_url", TaskUrl} |->
                     IF k = "current_url" THEN TaskUrl ELSE 0]
    /\ pc = "tools"
    /\ steps = 0
    /\ now = 0
    /\ invocations = <<>>
    /\ executed = {}
    /\ nextId = 1
    /\ err = ""
    /\ EMAIL = ConfiguredEmail
    /\ SECRET = ConfiguredSecret
    /\ BASE64_STORE = <<>>
    /\ sp_pc = "idle"
    /\ sp_payload = <<>>
    /\ sp_body = <<>>
    /\ RequestIdle
    /\ ChainInTask
    /\ ServerOneChain
    /\ ToolsIdle

\* response.status_code, 0 when requests.post raised
StatusOf(resp) == IF resp.kind = "http" THEN resp.status_code ELSE 0

\* post_request is called, line 87: the loop begins
post_request_enter ==
    /\ rq_pc \in {"idle", "returned"}
    /\ \E gap \in Gaps, maxr \in RetryArgs :
          /\ clock + gap <= MaxClock
          /\ clock' = clock + gap
          /\ max_retries' = maxr
    /\ attempt' = 0
    /\ attempts' = <<>>
    /\ response' = NoResponse
    /\ rq_outcome' = NoOutcome
    /\ rq_pc' = "loop"
    /\ UNCHANGED <<request_times, recent>>
    /\ UNCHANGED outsideRequest

\* one pass of the loop, lines 88-166: check_rate_limit, requests.post,
\* which answers or fails at once, and the handling of what it gives
post_request_attempt ==
    /\ rq_pc = "loop"
    /\ attempt < max_retries
    /\ clock <= MaxClock
    /\ \E resp \in Responses :
          LET att == attempt + 1
              rl == check_rate_limit(request_times, clock)
              sent == clock + rl.wait
              res == AttemptResult(resp, att, max_retries)
          IN  /\ attempt' = att
              /\ request_times' = rl.request_times
              /\ attempts' = Append(attempts,
                                 [arrived |-> clock, sent |-> sent,
                                  status |-> StatusOf(resp)])
              /\ response' = resp
              /\ recent' = Append(SelectSeq(recent,
                                      LAMBDA d : sent - d < TIME_WINDOW), sent)
              /\ clock' = sent + (IF res.next = "retry" THEN Backoff ELSE 0)
              /\ rq_pc' = IF res.next = "retry" THEN "loop" ELSE res.next
              /\ rq_outcome' = res.outcome
    /\ UNCHANGED max_retries
    /\ UNCHANGED outsideRequest

\* the loop ends without a return, line 168
post_request_exhausted ==
    /\ rq_pc = "loop"
    /\ ~(attempt < max_retries)
    /\ rq_pc' = "returned"
    /\ rq_outcome' = [error |-> "Max retries exceeded", attempt |-> max_retries]
    /\ UNCHANGED <<clock, request_times, max_retries, attempt, attempts,
                   response, recent>>
    /\ UNCHANGED outsideRequest

RequestNext ==
    \/ post_request_enter
    \/ post_request_attempt
    \/ post_request_exhausted

SpecRequest == RequestInit /\ [][RequestNext]_vars

(***************************************************************************)
(* The chain of tasks: run_agent, src/agent.py lines 275-374               *)
(***************************************************************************)
\* run_agent starts no task after this ordinal
MaxTasks == 3

Url1 == <<"h","t","t","p",":","/","/","q","/","1">>
Url2 == <<"h","t","t","p",":","/","/","q","/","2">>
\* the one URL in SYSTEM_PROMPT, line 78
SubmitUrl == <<"h","t","t","p","s",":","/","/","t","d","s","-","l","l","m","-","a",
      "n","a","l","y","s","i","s",".","s","-","a","n","a","n","d",".",
      "n","e","t","/","s","u","b","m","i","t">>

\* the grave accent, as one symbol
BACKTICK == "grave"

\* the text of SYSTEM_PROMPT around its URL, line 78
SystemPromptText == <<" ", " ", BACKTICK>> \o SubmitUrl \o <<BACKTICK, "\n">>

\* "Solve this quiz: ", line 301
TaskPrefix == <<"S","o","l","v","e"," ","t","h","i","s"," ","q","u","i","z",":"," ">>

\* SystemMessage(content=SYSTEM_PROMPT), line 300
SystemPromptMessage == [SystemMessage EXCEPT !.content = SystemPromptText]

\* HumanMessage(content=f"Solve this quiz: {current_url}"), line 301
TaskMessage(url) ==
    [HumanMessage(Len(url)) EXCEPT !.content = TaskPrefix \o url]

\* the characters the pattern of line 346 excludes from a URL: white space
\* and the characters less than, greater than, double quote, braces,
\* backslash, bar, caret, grave accent and brackets
UrlStop == {" ", "\n", "\t", "<", ">", QUOTE, "{", "}", BACKSLASH, "|", "^",
            BACKTICK, "[", "]"}

\* length of http:// or https:// at position i of s, 0 if neither is there
SchemeAt(s, i) ==
    IF i + 6 <= Len(s) /\ SubSeq(s, i, i + 6) = <<"h","t","t","p",":","/","/">>
    THEN 7
    ELSE IF i + 7 <= Len(s)
              /\ SubSeq(s, i, i + 7) = <<"h","t","t","p","s",":","/","/">>
         THEN 8
         ELSE 0

\* positions of s where the pattern matches: a scheme and at least one
\* more character that is not excluded
UrlStarts(s) ==
    { i \in 1..Len(s) :
        /\ SchemeAt(s, i) > 0
        /\ i + SchemeAt(s, i) <= Len(s)
        /\ s[i + SchemeAt(s, i)] \notin UrlStop }

\* re.findall of the URL pattern in s, line 346
RECURSIVE FindUrls(_)
FindUrls(s) ==
    IF UrlStarts(s) = {} THEN <<>>
    ELSE LET i == FirstOf(UrlStarts(s))
             stops == { j \in (i + SchemeAt(s, i))..Len(s) : s[j] \in UrlStop }
             e == IF stops = {} THEN Len(s) ELSE FirstOf(stops) - 1
         IN  <<SubSeq(s, i, e)>> \o FindUrls(SubSeq(s, e + 1, Len(s)))

KeyUrl == <<"u","r","l">>
KeyNextUrl == <<"n","e","x","t","_","u","r","l">>
KeyStdout == <<"s","t","d","o","u","t">>

\* the content of a ToolMessage: the result of the tool as JSON, or text
ToolContents ==
    { Dumps(<<Item(KeyNextUrl, Str(Url2))>>),
      Dumps(<<Item(KeyUrl, Str(Url1))>>),
      Dumps(<<Item(KeyStdout, Str(<<"7">>))>>),
      <<"7">> }

ToolResult(content, id) ==
    [ToolMessage(Len(content), id, FALSE) EXCEPT !.content = content]

CallTo(id) == <<[id |-> id, name |-> "run_code", args |-> {"code"}]>>

\* texts of the reply that ends a task: each holds an end signal
FinalTexts ==
    { <<"E","N","D">>,
      <<"E","N","D"," ">> \o Url2 \o <<" ">> \o Url1 }

\* what graph.invoke can return for the task url: the seeded conversation,
\* up to two rounds of a tool invocation and its result, and a final reply
\* without invocations that holds an end signal
Conversations(url) ==
    LET seed == <<SystemPromptMessage, TaskMessage(url)>>
        Round(id, c) == <<AIMessage(<<>>, CallTo(id), "tool_calls"),
                          ToolResult(c, id)>>
        Final(t) == <<AIMessage(t, NoCalls, "stop")>>
    IN  { seed \o Final(t) : t \in FinalTexts }
        \cup { seed \o Round(1, c) \o Final(t) :
                 c \in ToolContents, t \in FinalTexts }
        \cup { seed \o Round(1, c) \o Round(2, d) \o Final(<<"E","N","D">>) :
                 c \in ToolContents, d \in ToolContents }

\* the exceptions that end graph.invoke: the step ceiling, or the
\* exception of the fallback backend re-raised by agent_node
FatalErrors == {"GraphRecursionError", "Exception"}

\* whether the name json is bound in agent.py: lines 1-25 import os, time,
\* logging and names of other packages, not json
ImportsJson == FALSE

\* lines 322-339: the exception the scan of the tool results raises, ""
\* if none. json.loads(msg.content) is reached at the first ToolMessage,
\* and so is the name json
JsonScanRaises(ms) ==
    IF ~ImportsJson /\ \E i \in 1..Len(ms) : ms[i].type = "tool"
    THEN "NameError"
    ELSE ""

\* line 348 as it would be without the filter
ValidUrls_keepsCurrent(content, cur) == FindUrls(content)

\* urls of content other than cur, line 348
ValidUrls(content, cur) == SelectSeq(FindUrls(content), LAMBDA u : u # cur)

\* lines 342-352: the first URL other than cur of the last message that
\* holds one, <<>> if there is none
RegexScan(ms, cur) ==
    LET holders == { i \in 1..Len(ms) : ValidUrls(ms[i].content, cur) # <<>> }
    IN  IF holders = {} THEN <<>>
        ELSE LET i == CHOOSE k \in holders : \A j \in holders : j <= k
             IN  ValidUrls(ms[i].content, cur)[1]

\* the handler of run_agent as it would be if it caught the step ceiling
\* only
Caught_recursionOnly(exc) == exc = "GraphRecursionError"

\* except Exception, line 363
Caught(exc) == TRUE

\* shared.url_time as a dict with the keys of run_agent
KeyCurrentUrl == <<"c","u","r","r","e","n","t","_","u","r","l">>

\* the urls POST /solve can hand to run_agent
InitialUrls == {<<>>, Url1, SubmitUrl}

\* run_agent has been called, lines 277-286
ChainInit ==
    /\ messages = <<>>
    /\ quiz_number = 1
    /\ start_time = 0
    /\ url_time = <<>>
    /\ pc = "agent"
    /\ steps = 0
    /\ now = 0
    /\ invocations = <<>>
    /\ executed = {}
    /\ nextId = 1
    /\ err = ""
    /\ EMAIL = ConfiguredEmail
    /\ SECRET = ConfiguredSecret
    /\ BASE64_STORE = <<>>
    /\ sp_pc = "idle"
    /\ sp_payload = <<>>
    /\ sp_body = <<>>
    /\ RequestIdle
    /\ chain_url \in InitialUrls
    /\ chain_pc = "loop"
    /\ started = <<>>
    /\ caught = ""
    /\ ServerOneChain
    /\ ToolsIdle

\* lines 288-312: the loop goes on, the task is registered in url_time, the
\* conversation is seeded and graph.invoke is called
run_agent_start_task ==
    /\ chain_pc = "loop"
    /\ chain_url # <<>>
    /\ quiz_number <= MaxTasks
    /\ url_time' = SetItem(SetItem(url_time, KeyCurrentUrl, chain_url),
                           chain_url, now)
    /\ messages' = <<SystemPromptMessage, TaskMessage(chain_url)>>
    /\ start_time' = now
    /\ started' = Append(started,
                      [url |-> chain_url, quiz_number |-> quiz_number])
    /\ chain_pc' = "invoke"
    /\ UNCHANGED <<quiz_number, pc, steps, now, invocations, executed, nextId,
                   err, chain_url, caught>>
    /\ UNCHANGED outsideChain

\* lines 309-366: graph.invoke returns the final conversation and the next
\* URL is looked for; run_agent goes on with it, or leaves the loop
\* because there is none or because the search raised, and returns
run_agent_task_returns ==
    /\ chain_pc = "invoke"
    /\ \E result \in Conversations(chain_url) :
          LET exc == JsonScanRaises(result)
              next_url == RegexScan(result, chain_url)
          IN  /\ messages' = result
              /\ IF exc # ""
                 THEN /\ caught' = exc
                      /\ chain_pc' = IF Caught(exc) THEN "returned" ELSE "raised"
                      /\ UNCHANGED <<chain_url, quiz_number, now>>
                 ELSE IF next_url = <<>>
                      THEN /\ chain_pc' = "returned"
                           /\ UNCHANGED <<chain_url, quiz_number, now, caught>>
                      ELSE /\ chain_url' = next_url
                           /\ quiz_number' = quiz_number + 1
                           /\ now' = now + 2
                           /\ chain_pc' = "loop"
                           /\ UNCHANGED caught
    /\ UNCHANGED <<start_time, url_time, pc, steps, invocations, executed,
                   nextId, err, started>>
    /\ UNCHANGED outsideChain

\* lines 309-312 and 363-374: graph.invoke raises, the handler leaves the
\* loop and run_agent returns
run_agent_task_raises ==
    /\ chain_pc = "invoke"
    /\ \E exc \in FatalErrors :
          /\ err' = exc
          /\ caught' = exc
          /\ chain_pc' = IF Caught(exc) THEN "returned" ELSE "raised"
    /\ UNCHANGED <<messages, quiz_number, start_time, url_time, pc, steps, now,
                   invocations, executed, nextId, chain_url, started>>
    /\ UNCHANGED outsideChain

\* line 288 with an empty current_url: the loop is not entered
run_agent_no_task ==
    /\ chain_pc = "loop"
    /\ chain_url = <<>>
    /\ chain_pc' = "returned"
    /\ UNCHANGED <<messages, quiz_number, start_time, url_time, pc, steps, now,
                   invocations, executed, nextId, err, chain_url, started,
                   caught>>
    /\ UNCHANGED outsideChain

ChainNext ==
    \/ run_agent_start_task
    \/ run_agent_task_returns
    \/ run_agent_task_raises
    \/ run_agent_no_task

SpecChain == ChainInit /\ [][ChainNext]_vars

(***************************************************************************)
(* The server: solve_quiz, src/main.py lines 40-63, and the run_agent      *)
(* calls it schedules, each run in a thread of the pool once the answer    *)
(* has been sent                                                           *)
(***************************************************************************)
\* POST /solve requests the server receives
MaxRequests == 2

\* secrets a request can carry; request.secret is a str
RequestSecrets == {ConfiguredSecret, Str(<<>>)}

\* values of os.getenv("SECRET"): unset, empty, set
ServerSecrets == {None, Str(<<>>), ConfiguredSecret}

SolveRequests == [url : {Url1, Url2}, secret : RequestSecrets]

\* solve_quiz as it would be without the check of line 49
SolveStatus_noConfigCheck(expected_secret, secret) ==
    IF secret # expected_secret THEN 403 ELSE 200

\* lines 48-63: the status solve_quiz answers with
SolveStatus(expected_secret, secret) ==
    IF ~Truthy(expected_secret) THEN 500
    ELSE IF secret # expected_secret THEN 403
    ELSE 200

\* the body of the answer: the detail of the HTTPException, or line 63
SolveBody(status, url) ==
    IF status = 500 THEN [detail |-> "Server configuration error"]
    ELSE IF status = 403 THEN [detail |-> "Invalid secret"]
    ELSE [status |-> "started", url |-> url]

\* nothing read yet
NoRead == [pointer |-> <<>>, stamp |-> -1]

\* a run_agent call that has not begun
Queued(url) ==
    [url |-> url, pc |-> "queued", quiz_number |-> 1, start |-> -1,
     read |-> NoRead]

ServerInit ==
    /\ messages = <<>>
    /\ quiz_number = 1
    /\ start_time = 0
    /\ url_time = <<>>
    /\ pc = "agent"
    /\ steps = 0
    /\ now = 0
    /\ invocations = <<>>
    /\ executed = {}
    /\ nextId = 1
    /\ err = ""
    /\ EMAIL = ConfiguredEmail
    /\ SECRET \in ServerSecrets
    /\ BASE64_STORE = <<>>
    /\ sp_pc = "idle"
    /\ sp_payload = <<>>
    /\ sp_body = <<>>
    /\ RequestIdle
    /\ chain_url = <<>>
    /\ chain_pc = "loop"
    /\ started = <<>>
    /\ caught = ""
    /\ ServerOneChain
    /\ ToolsIdle

serverRest == <<messages, quiz_number, start_time, pc, steps, invocations,
                executed, nextId, err, submitVars, requestVars, chainVars,
                toolVars>>

\* solve_quiz, lines 41-63, on request number n: the answer, and the task
\* added to the background tasks, which starlette runs in a thread of its
\* pool after the answer
solve_quiz ==
    /\ answer.n < MaxRequests
    /\ \E request \in SolveRequests :
          LET status == SolveStatus(SECRET, request.secret)
          IN  /\ answer' = [n |-> answer.n + 1, request |-> request,
                            status |-> status,
                            body |-> SolveBody(status, request.url),
                            tasks_before |-> Len(scheduled)]
              /\ IF status = 200
                 THEN /\ scheduled' = Append(scheduled, request.url)
                      /\ chains' = Append(chains, Queued(request.url))
                 ELSE UNCHANGED <<scheduled, chains>>
    /\ UNCHANGED <<url_time, now>>
    /\ UNCHANGED serverRest

\* run_agent of chain c, line 295
run_agent_set_pointer(c) ==
    /\ chains[c].pc = "queued"
    /\ url_time' = SetItem(url_time, KeyCurrentUrl, chains[c].url)
    /\ chains' = [chains EXCEPT ![c].pc = "pointer"]
    /\ UNCHANGED <<answer, scheduled, now>>
    /\ UNCHANGED serverRest

\* run_agent of chain c, lines 296-312: the start time is stored and the
\* graph is invoked; the clock has moved on since the last task began
run_agent_set_time(c) ==
    /\ chains[c].pc = "pointer"
    /\ now' = now + 1
    /\ url_time' = SetItem(url_time, chains[c].url, now')
    /\ chains' = [chains EXCEPT ![c].pc = "task", ![c].start = now']
    /\ UNCHANGED <<answer, scheduled>>
    /\ UNCHANGED serverRest

\* agent_node in the task of chain c, lines 157-159: the pointer and the
\* start time stored for the URL it names, -1 when none is stored
agent_node_reads(c) ==
    /\ chains[c].pc = "task"
    /\ LET current_url == PyGet(url_time, KeyCurrentUrl, <<>>)
           quiz_start == IF current_url # <<>> /\ HasKey(url_time, current_url)
                         THEN Get(url_time, current_url)
                         ELSE -1
       IN  chains' = [chains EXCEPT
                        ![c].read = [pointer |-> current_url, stamp |-> quiz_start]]
    /\ UNCHANGED <<answer, scheduled, url_time, now>>
    /\ UNCHANGED serverRest

\* the task of chain c ends and run_agent returns, lines 314-374; the
\* tasks a chain goes on with take the same steps
run_agent_returns(c) ==
    /\ chains[c].pc = "task"
    /\ chains' = [chains EXCEPT ![c].pc = "returned", ![c].read = NoRead]
    /\ UNCHANGED <<answer, scheduled, url_time, now>>
    /\ UNCHANGED serverRest

ServerNext ==
    \/ solve_quiz
    \/ \E c \in 1..Len(chains) : run_agent_set_pointer(c)
    \/ \E c \in 1..Len(chains) : run_agent_set_time(c)
    \/ \E c \in 1..Len(chains) : agent_node_reads(c)
    \/ \E c \in 1..Len(chains) : run_agent_returns(c)

SpecServer == ServerInit /\ [][ServerNext]_vars

(***************************************************************************)
(* The tools bound to the model, src/agent.py lines 90-98: what each       *)
(* returns to the tool node, by what happened while it ran                 *)
(***************************************************************************)
\* tool calls followed
MaxToolCalls == 2

\* a returned dict, by its keys, and a returned str
Dict(d) == [type |-> "dict", value |-> d]
PlainStr(s) == [type |-> "str", value |-> s]

\* str.startswith
StartsWith(s, prefix) ==
    /\ Len(s) >= Len(prefix)
    /\ SubSeq(s, 1, Len(prefix)) = prefix

LLMFiles == <<"L", "L", "M", "F", "i", "l", "e", "s">>

\* audio_path arguments: inside LLMFiles, and a bare file name
AudioPaths == {LLMFiles \o <<"/", "a">>, <<"a">>}

ToolsInit ==
    /\ messages = <<SystemMessage, HumanMessage(30)>>
    /\ quiz_number = 1
    /\ start_time = 0
    /\ url_time = [k \in {"current_url", TaskUrl} |->
                     IF k = "current_url" THEN TaskUrl ELSE 0]
    /\ pc = "tools"
    /\ steps = 0
    /\ now = 0
    /\ invocations = <<>>
    /\ executed = {}
    /\ nextId = 1
    /\ err = ""
    /\ EMAIL = ConfiguredEmail
    /\ SECRET = ConfiguredSecret
    /\ BASE64_STORE = <<>>
    /\ sp_pc = "idle"
    /\ sp_payload = <<>>
    /\ sp_body = <<>>
    /\ RequestIdle
    /\ ChainInTask
    /\ ServerOneChain
    /\ ToolsIdle

\* the tool returns: whether it failed to do its work, and the value the
\* tool node puts into the conversation
ToolReturn(name, failed, result) ==
    /\ Len(tool_results) < MaxToolCalls
    /\ tool_results' = Append(tool_results,
                              [tool |-> name, failed |-> failed,
                               result |-> result])
    /\ UNCHANGED <<agentVars, submitVars, requestVars, chainVars, serverVars,
                   log>>

\* src/tools/web_scraper.py lines 28-81: the page is fetched, or an
\* exception is caught
get_rendered_html ==
    \E outcome \in {"ok", "Exception"} :
        IF outcome = "ok"
        THEN ToolReturn("get_rendered_html", FALSE,
                        Dict([html |-> "page", images |-> <<>>, url |-> Url1]))
        ELSE ToolReturn("get_rendered_html", TRUE,
                        Dict([error |-> outcome, html |-> "", images |-> <<>>,
                              url |-> Url1]))

\* src/tools/run_code.py lines 37-102: the subprocess ends, is timed out,
\* or cannot be run
run_code ==
    \E outcome \in {"ok", "TimeoutExpired", "Exception"} :
        IF outcome = "ok"
        THEN ToolReturn("run_code", FALSE,
                        Dict([stdout |-> "out", stderr |-> "",
                              return_code |-> 0]))
        ELSE IF outcome = "TimeoutExpired"
        THEN ToolReturn("run_code", TRUE,
                        Dict([stdout |-> "",
                              stderr |-> "Execution timeout after 30 seconds",
                              return_code |-> -1]))
        ELSE ToolReturn("run_code", TRUE,
                        Dict([stdout |-> "", stderr |-> outcome,
                              return_code |-> -1]))

\* src/tools/download.py lines 30-75
download_file ==
    \E outcome \in {"ok", "Exception"} :
        IF outcome = "ok"
        THEN ToolReturn("download_file", FALSE,
                        Dict([filepath |-> "LLMFiles/f", size |-> 1,
                              filename |-> "f", success |-> TRUE]))
        ELSE ToolReturn("download_file", TRUE,
                        Dict([filepath |-> "", size |-> 0, filename |-> "",
                              success |-> FALSE, error |-> outcome]))

\* src/tools/ocr.py lines 28-69
ocr_image_tool ==
    \E outcome \in {"ok", "Exception"} :
        IF outcome = "ok"
        THEN ToolReturn("ocr_image_tool", FALSE,
                        Dict([text |-> "seen", success |-> TRUE]))
        ELSE ToolReturn("ocr_image_tool", TRUE,
                        Dict([text |-> "", success |-> FALSE,
                              error |-> outcome]))

\* src/tools/audio.py lines 29-81: line 31 names file_path, which is not
\* defined, so a path outside LLMFiles ends in the last handler; a missing
\* file and a transcription are answered with a str; the audio is not
\* understood, the recognition service fails, or the conversion fails
transcribe_audio ==
    \E audio_path \in AudioPaths,
       outcome \in {"missing", "ok", "UnknownValueError", "RequestError",
                    "Exception"} :
        IF ~StartsWith(audio_path, LLMFiles)
        THEN ToolReturn("transcribe_audio", TRUE,
                        Dict([text |-> "", success |-> FALSE,
                              error |-> "NameError"]))
        ELSE IF outcome = "missing"
        THEN ToolReturn("transcribe_audio", TRUE,
                        PlainStr(<<"Error: File not found at ", audio_path>>))
        ELSE IF outcome = "ok"
        THEN ToolReturn("transcribe_audio", FALSE, PlainStr("heard"))
        ELSE IF outcome = "UnknownValueError"
        THEN ToolReturn("transcribe_audio", TRUE,
                        Dict([text |-> "", success |-> FALSE,
                              error |-> "Could not understand audio"]))
        ELSE IF outcome = "RequestError"
        THEN ToolReturn("transcribe_audio", TRUE,
                        Dict([text |-> "", success |-> FALSE,
                              error |-> <<"Service error: ", outcome>>]))
        ELSE ToolReturn("transcribe_audio", TRUE,
                        Dict([text |-> "", success |-> FALSE,
                              error |-> outcome]))

\* src/tools/base64.py lines 29-68, by what it returns
encode_image ==
    \E key \in Uuids, outcome \in {"ok", "Exception"} :
        IF outcome = "ok"
        THEN ToolReturn("encode_image_to_base64", FALSE,
                        Dict([placeholder |-> Placeholder(key), uuid |-> key,
                              success |-> TRUE]))
        ELSE ToolReturn("encode_image_to_base64", TRUE,
                        Dict([placeholder |-> "", uuid |-> "",
                              success |-> FALSE, error |-> outcome]))

\* src/tools/send_request.py lines 87-168, by what it returns after the
\* server's answer to the last attempt; no attempt is made when
\* max_retries is 0
submit_answer ==
    \E resp \in Responses, maxr \in {0, 1} :
        IF maxr = 0
        THEN ToolReturn("post_request", TRUE,
                        Dict([error |-> "Max retries exceeded",
                              attempt |-> maxr]))
        ELSE ToolReturn("post_request",
                        Raised(resp) # "" \/ StatusOf(resp) # 200,
                        Dict(AttemptResult(resp, maxr, maxr).outcome))

ToolsNext ==
    \/ get_rendered_html
    \/ run_code
    \/ download_file
    \/ ocr_image_tool
    \/ transcribe_audio
    \/ encode_image
    \/ submit_answer

SpecTools == ToolsInit /\ [][ToolsNext]_vars

(***************************************************************************)
(* What post_request writes to the log about the payload and about the     *)
(* server's answer, src/tools/send_request.py lines 75-85 and 111-126      *)
(***************************************************************************)
\* post_request calls followed
MaxSubmissions == 2

\* a string of more than 100 characters
LongText == [i \in 1..101 |-> "x"]

KeyReason == <<"r","e","a","s","o","n">>

\* lines 78-83: the copy of the payload that is logged
SafePayload(payload) ==
    [i \in 1..Len(payload) |->
        LET v == IF payload[i].k = KeySecret THEN Str(<<"*","*","*">>)
                 ELSE payload[i].v
        IN  [k |-> payload[i].k,
             v |-> IF v.t = "str" /\ Len(v.s) > 100
                   THEN Str(SubSeq(v.s, 1, 50) \o <<".",".",".">>
                              \o SubSeq(v.s, Len(v.s) - 19, Len(v.s)))
                   ELSE v]]

LogInit ==
    /\ messages = <<SystemMessage, HumanMessage(30)>>
    /\ quiz_number = 1
    /\ start_time = 0
    /\ url_time = [k \in {"current_url", TaskUrl} |->
                     IF k = "current_url" THEN TaskUrl ELSE 0]
    /\ pc = "tools"
    /\ steps = 0
    /\ now = 0
    /\ invocations = <<>>
    /\ executed = {}
    /\ nextId = 1
    /\ err = ""
    /\ EMAIL = ConfiguredEmail
    /\ SECRET = ConfiguredSecret
    /\ BASE64_STORE = <<>>
    /\ sp_pc = "idle"
    /\ sp_payload = <<>>
    /\ sp_body = <<>>
    /\ RequestIdle
    /\ ChainInTask
    /\ ServerOneChain
    /\ ToolsIdle

\* post_request on a payload whose answer is a short text, the secret or a
\* long text, with or without a secret of its own, answered with status 200
\* and a JSON object without the key correct: the records of lines 84, 114
\* and 126; json.dumps with indent differs from Dumps in white space only
post_request_logs ==
    /\ Len(log) < 3 * MaxSubmissions
    /\ \E answer_value \in {Str(<<"4","2">>), SECRET, Str(LongText)},
          own_secret \in BOOLEAN,
          data \in { <<>> } \cup
                   { SetItem(<<>>, KeyReason, v) :
                       v \in {Str(<<"n","o">>), SECRET, Str(LongText)} } :
          LET given == SetItem(IF own_secret
                               THEN SetItem(<<>>, KeySecret, SECRET)
                               ELSE <<>>,
                               KeyAnswer, answer_value)
              payload == PreparePayload(given, EMAIL, SECRET, BASE64_STORE)
              reason == PyGet(data, KeyReason, Str(<<>>))
          IN  log' = log \o << Dumps(SafePayload(payload)),
                               Dumps(data),
                               <<"R","e","a","s","o","n",":"," ">> \o reason.s >>
    /\ UNCHANGED <<agentVars, submitVars, requestVars, chainVars, serverVars,
                   tool_results>>

SpecLog == LogInit /\ [][post_request_logs]_vars

(***************************************************************************)
(* Observations used by the properties                                     *)
(***************************************************************************)
Front(s) == SubSeq(s, 1, Len(s) - 1)

\* an agent_node execution has just returned after invoking a backend
Invoked == invocations # <<>>

\* the conversation agent_node was given: on a backend failure nothing was
\* appended, otherwise the reply is the last message
Before == IF pc = "error" THEN messages ELSE Front(messages)

\* the sequence the latest backend invocation received
Sent == Last(invocations).input

\* the routing decision on the latest reply has just been taken
Routed ==
    /\ pc \in {"agent", "tools", "handle_malformed", "END"}
    /\ Last(messages).type = "ai"

\* position i of ms is a tool result whose requesting reply precedes it
\* with nothing but tool results of that reply in between
Requested(ms, i) ==
    \E j \in 1..(i - 1) :
        /\ ms[j].type = "ai"
        /\ \E k \in 1..Len(ms[j].tool_calls) :
              ms[j].tool_calls[k].id = ms[i].tool_call_id
        /\ \A m \in (j + 1)..(i - 1) : ms[m].type = "tool"

Causal(ms) == \A i \in 1..Len(ms) : ms[i].type = "tool" => Requested(ms, i)

NonSystemCount(ms) == Len(SelectSeq(ms, NotSystem))

AllComplete(calls) == \A i \in 1..Len(calls) : CallComplete(calls[i])

\* agent_node took its timeout branch at some point of this run
TimeoutFired ==
    \E i \in 1..Len(messages) :
        messages[i].type = "ai" /\ messages[i].content = TimeoutText

(***************************************************************************)
(* C1: every tool-result message of the sequence trim_messages returns is  *)
(* immediately preceded by the model reply that requested it; the retained *)
(* suffix never begins with a tool result whose reply was trimmed away.    *)
(* The code keeps the last 60% of the non-system messages as they are.     *)
(***************************************************************************)
C1_TrimKeepsCausalOrder == Invoked => Causal(Sent)

(***************************************************************************)
(* C2: when the estimated size of the conversation exceeds the ceiling,    *)
(* the sequence trim_messages returns is within the ceiling or has at most *)
(* floor(60% of the non-system messages) non-system messages, also for a   *)
(* single non-system message.                                              *)
(***************************************************************************)
C2_TrimBoundsSize ==
    (Invoked /\ estimated_tokens(Before) > max_tokens) =>
        \/ estimated_tokens(Sent) <= max_tokens
        \/ NonSystemCount(Sent) <= KeepCount(NonSystemCount(Before))

(***************************************************************************)
(* C3: with elapsed time of at least 180 for the current task, the reply   *)
(* of agent_node is the result of invoking the backend with the compacted  *)
(* conversation plus the forced-wrong-answer directive appended.           *)
(***************************************************************************)
C3_TimeoutInvokesWithDirective ==
    (pc = "route" /\ QuizElapsed(now) >= QuizTimeout) =>
        /\ Invoked
        /\ Last(invocations).outcome = "ok"
        /\ Last(messages) = Last(invocations).reply
        /\ Front(Sent) = trim_messages(Before)
        /\ Last(Sent).type = "human"

(***************************************************************************)
(* C4: once the per-task timeout has fired the task makes progress: the    *)
(* run is not ended by the step ceiling after cycling agent -> route ->    *)
(* agent on the timeout reply.                                             *)
(***************************************************************************)
C4_TimeoutMakesProgress == TimeoutFired => err # "GraphRecursionError"

(***************************************************************************)
(* C5: every reply whose finish status reports a malformed structured call *)
(* is routed to handle_malformed, also when it carries no tool invocation. *)
(***************************************************************************)
C5_MalformedStatusRoutedToRepair ==
    (Routed /\ Last(messages).finish = "MALFORMED_FUNCTION_CALL") =>
        pc = "handle_malformed"

(***************************************************************************)
(* C6: a reply carrying tool invocations is routed to tools exactly when   *)
(* every invocation has a non-empty name and non-empty arguments; if one   *)
(* is incomplete the reply is routed to handle_malformed and no tool of    *)
(* that reply is executed.                                                 *)
(***************************************************************************)
C6_ToolsIffAllComplete ==
    /\ (Routed /\ Last(messages).tool_calls # NoCalls) =>
          /\ pc = "tools" <=> AllComplete(Last(messages).tool_calls)
          /\ ~AllComplete(Last(messages).tool_calls) => pc = "handle_malformed"
    /\ \A i \in 1..Len(messages) :
          (messages[i].type = "ai" /\ ~AllComplete(messages[i].tool_calls)) =>
              \A k \in 1..Len(messages[i].tool_calls) :
                  messages[i].tool_calls[k].id \notin executed

\* after the tools of an earlier reply were executed, a reply with a
\* complete and an incomplete invocation has been routed to handle_malformed
C6_Witness ==
    /\ pc = "handle_malformed"
    /\ executed # {}
    /\ Len(Last(messages).tool_calls) = 2
    /\ CallComplete(Last(messages).tool_calls[1])
    /\ ~CallComplete(Last(messages).tool_calls[2])

(***************************************************************************)
(* C7: a reply without tool invocations is routed to END when its text,    *)
(* after trimming, equals the end token or contains a completion keyword   *)
(* (END, COMPLETE, FINISHED); a reply with tool invocations is never       *)
(* routed to END, whatever its text.                                       *)
(***************************************************************************)
RECURSIVE LStrip(_)
LStrip(s) == IF s # <<>> /\ s[1] = " " THEN LStrip(Tail(s)) ELSE s
RECURSIVE RStrip(_)
RStrip(s) == IF s # <<>> /\ Last(s) = " " THEN RStrip(Front(s)) ELSE s
Strip(s) == RStrip(LStrip(s))

C7_EndRouting ==
    Routed =>
        LET m == Last(messages) IN
        /\ (/\ m.tool_calls = NoCalls
            /\ \/ Strip(m.content) = KW_END
               \/ Contains(m.content, KW_END)
               \/ Contains(m.content, KW_COMPLETE)
               \/ Contains(m.content, KW_FINISHED)) => pc = "END"
        /\ m.tool_calls # NoCalls => pc # "END"

\* the run ended on a reply containing COMPLETE, after a reply that carried
\* tool invocations together with the text END had its tools executed
C7_Witness ==
    /\ pc = "END"
    /\ Contains(Last(messages).content, KW_COMPLETE)
    /\ \E i \in 1..(Len(messages) - 1) :
          /\ messages[i].type = "ai"
          /\ messages[i].tool_calls # NoCalls
          /\ messages[i].content = KW_END
          /\ messages[i + 1].type = "tool"

(***************************************************************************)
(* C8: if the primary backend fails (rate limit or any other failure)      *)
(* agent_node invokes the fallback backend exactly once with the same      *)
(* compacted sequence and returns its reply; if the fallback fails too the *)
(* failure ends the task; the fallback is never invoked when the primary   *)
(* succeeds.                                                               *)
(***************************************************************************)
C8_FallbackOnce ==
    Invoked =>
        /\ invocations[1].backend = "primary"
        /\ invocations[1].input = trim_messages(Before)
        /\ invocations[1].outcome = "ok" =>
              /\ Len(invocations) = 1
              /\ pc = "route"
              /\ Last(messages) = invocations[1].reply
        /\ invocations[1].outcome # "ok" =>
              /\ Len(invocations) = 2
              /\ invocations[2].backend = "fallback"
              /\ invocations[2].input = invocations[1].input
              /\ invocations[2].outcome = "ok" =>
                    /\ pc = "route"
                    /\ Last(messages) = invocations[2].reply
              /\ invocations[2].outcome # "ok" =>
                    /\ pc = "error"
                    /\ err = "BackendError"

\* the primary backend failed with something other than a rate limit and
\* the fallback answered
C8_Witness ==
    /\ Len(invocations) = 2
    /\ invocations[1].outcome = "Exception"
    /\ invocations[2].outcome = "ok"
    /\ pc = "route"

(***************************************************************************)
(* C9 as stated: handle_malformed produces exactly one corrective message  *)
(* per malformed invocation of the offending reply, addressed to its call  *)
(* id, and none for any other invocation.                                  *)
(***************************************************************************)
\* number of corrective messages addressed to call id
Corrections(id) ==
    Cardinality({ i \in 1..Len(messages) :
                    messages[i].corrective /\ messages[i].tool_call_id = id })

\* replies that have been through handle_malformed
Repaired ==
    { i \in 1..(Len(messages) - 1) :
        messages[i].type = "ai" /\ messages[i].tool_calls # NoCalls
          /\ ~AllComplete(messages[i].tool_calls) }

C9_OnePerMalformedCall ==
    \A i \in Repaired :
        \A k \in 1..Len(messages[i].tool_calls) :
            Corrections(messages[i].tool_calls[k].id) =
                IF CallComplete(messages[i].tool_calls[k]) THEN 0 ELSE 1

(***************************************************************************)
(* C9 amended: handle_malformed produces exactly one corrective message    *)
(* per invocation of the offending reply, complete or not, addressed to    *)
(* that invocation's call id and in the order of the invocations, and no   *)
(* corrective message for an invocation of any other reply.                *)
(***************************************************************************)
C9_OnePerCallOfReply ==
    /\ \A i \in Repaired :
          \A k \in 1..Len(messages[i].tool_calls) :
              /\ i + k <= Len(messages)
              /\ messages[i + k] =
                    ToolMessage(MalformedTextLen, messages[i].tool_calls[k].id, TRUE)
              /\ Corrections(messages[i].tool_calls[k].id) = 1
    /\ \A j \in 1..Len(messages) :
          messages[j].corrective =>
              \E i \in Repaired : \E k \in 1..Len(messages[i].tool_calls) :
                  j = i + k /\ messages[i].tool_calls[k].id = messages[j].tool_call_id

\* a reply with an incomplete and a complete invocation has been repaired
C9_Witness ==
    \E i \in Repaired :
        /\ Len(messages[i].tool_calls) = 2
        /\ ~CallComplete(messages[i].tool_calls[1])
        /\ CallComplete(messages[i].tool_calls[2])
        /\ messages[i + 2].corrective

(***************************************************************************)
(* C10 as stated: for every payload passed to post_request, a missing      *)
(* email or secret is sent with exactly the configured value, and an       *)
(* email or secret the payload contains is sent unchanged.                 *)
(***************************************************************************)
\* what the payload holds for the field, or else the configured value
IdentityValue(field) ==
    IF HasKey(sp_payload, field) THEN Get(sp_payload, field)
    ELSE IF field = KeyEmail THEN EMAIL ELSE SECRET

C10_IdentityExact ==
    sp_pc = "sent" =>
        \A field \in {KeyEmail, KeySecret} :
            HasKey(sp_body, field) /\ Get(sp_body, field) = IdentityValue(field)

(***************************************************************************)
(* C10 amended: the email and secret of the outgoing body are the          *)
(* payload's own values when it has them and the configured values when    *)
(* it does not, in both cases with every placeholder token of a stored     *)
(* entry replaced by that entry's base64 string; a value that contains no  *)
(* such token is sent exactly.                                             *)
(***************************************************************************)
NoStoredToken(v) ==
    v.t = "null" \/ \A i \in 1..Len(BASE64_STORE) :
                        ~Contains(v.s, Placeholder(BASE64_STORE[i].k))

Substituted(v) ==
    IF v.t = "null" THEN None ELSE Str(ReplacePlaceholders(v.s, BASE64_STORE))

C10_IdentityUpToPlaceholders ==
    sp_pc = "sent" =>
        \A field \in {KeyEmail, KeySecret} :
            /\ HasKey(sp_body, field)
            /\ Get(sp_body, field) = Substituted(IdentityValue(field))
            /\ NoStoredToken(IdentityValue(field)) =>
                  Get(sp_body, field) = IdentityValue(field)

\* a payload without email, with its own secret and with an answer that
\* holds the token of a stored entry has been sent in a configured
\* environment
C10_Witness ==
    /\ sp_pc = "sent"
    /\ EMAIL = ConfiguredEmail
    /\ ~HasKey(sp_payload, KeyEmail)
    /\ HasKey(sp_payload, KeySecret)
    /\ Get(sp_payload, KeySecret) = Str(<<"m","e">>)
    /\ HasKey(sp_payload, KeyAnswer)
    /\ Get(sp_payload, KeyAnswer) = Str(Placeholder("k1"))
    /\ HasKey(BASE64_STORE, "k1")
    /\ Get(sp_body, KeyAnswer) = Str(<<"T","W","E","=">>)

(***************************************************************************)
(* C11: for every token encode_image_to_base64 has returned, a later       *)
(* post_request whose payload contains the token sends a body in which     *)
(* the token is replaced by exactly the base64 string stored for it; the   *)
(* tokens of other stored entries are replaced by their own strings and    *)
(* tokens of no stored entry, like all other text, are sent as they are.   *)
(***************************************************************************)
\* positions of s where the token of a stored entry begins
TokenStarts(s) ==
    { i \in 1..(Len(s) - Len(PlaceholderPrefix)) :
        /\ SubSeq(s, i, i + Len(PlaceholderPrefix) - 1) = PlaceholderPrefix
        /\ HasKey(BASE64_STORE, s[i + Len(PlaceholderPrefix)]) }

\* s read once from left to right, every token of a stored entry giving
\* way to the string stored for it
RECURSIVE RoundTrip(_)
RoundTrip(s) ==
    IF TokenStarts(s) = {} THEN s
    ELSE LET i == FirstOf(TokenStarts(s))
             j == i + Len(PlaceholderPrefix)
         IN  SubSeq(s, 1, i - 1) \o Get(BASE64_STORE, s[j])
               \o RoundTrip(SubSeq(s, j + 1, Len(s)))

C11_PlaceholderRoundTrip ==
    sp_pc = "sent" =>
        \A n \in 1..Len(sp_payload) :
            LET item == sp_payload[n]
            IN  /\ HasKey(sp_body, item.k)
                /\ Get(sp_body, item.k) =
                      IF item.v.t = "null" THEN None
                      ELSE Str(RoundTrip(item.v.s))

\* an answer holding the tokens of two stored entries, the second stored
\* first, has been sent with each token replaced by its own string
C11_Witness ==
    /\ sp_pc = "sent"
    /\ Len(BASE64_STORE) = 2
    /\ BASE64_STORE[1].k = "k1"
    /\ BASE64_STORE[1].v = <<"T","W","E","=">>
    /\ BASE64_STORE[2].k = "k2"
    /\ BASE64_STORE[2].v = <<"T","W","F","u","I","Q","=","=">>
    /\ HasKey(sp_payload, KeyAnswer)
    /\ Get(sp_payload, KeyAnswer) =
          Str(Placeholder("k2") \o <<"+">> \o Placeholder("k1"))
    /\ Get(sp_body, KeyAnswer) =
          Str(<<"T","W","F","u","I","Q","=","=","+","T","W","E","=">>)

(***************************************************************************)
(* C12: in every 60-unit sliding window at most 4 attempts are             *)
(* dispatched, also for the attempts that follow a wait of the limiter:    *)
(* the dispatches less than 60 units before the latest one, the latest     *)
(* included, are never more than 4.                                        *)
(***************************************************************************)
C12_WindowBound == Len(recent) <= MAX_REQUESTS

(***************************************************************************)
(* C13: a post_request call dispatches at most max_retries attempts; an    *)
(* attempt that met a status other than 200 or a transport error is        *)
(* followed, when attempts are left, by a retry that arrives 2 units       *)
(* later; after the last such attempt the call returns a failure outcome   *)
(* with an error detail and attempt = max_retries; the call never raises.  *)
(***************************************************************************)
Failed(a) == a.status # 200

C13_BoundedRetries ==
    /\ rq_pc # "raised"
    /\ Len(attempts) = attempt
    /\ Len(attempts) <= max_retries
    /\ \A i \in 2..Len(attempts) :
          attempts[i].arrived = attempts[i - 1].sent + Backoff
    /\ (attempts # <<>> /\ Failed(Last(attempts))) =>
          IF attempt < max_retries
          THEN rq_pc = "loop" /\ clock = Last(attempts).sent + Backoff
          ELSE /\ rq_pc = "returned"
               /\ "error" \in DOMAIN rq_outcome
               /\ rq_outcome.attempt = max_retries
    /\ (rq_pc = "returned" /\ attempts = <<>>) =>
          /\ max_retries = 0
          /\ "error" \in DOMAIN rq_outcome
          /\ rq_outcome.attempt = max_retries

\* a call with the default max_retries has met a status 500, a timeout and
\* connection errors and has returned the failure of its fourth attempt
C13_Witness ==
    /\ rq_pc = "returned"
    /\ max_retries = 4
    /\ Len(attempts) = 4
    /\ attempts[1].status = 500
    /\ attempts[2].status = 0
    /\ attempts[2].arrived = attempts[1].sent + 2
    /\ response = [kind |-> "exception", exc |-> "Timeout"]
    /\ rq_outcome = [error |-> "Timeout", attempt |-> 4]

(***************************************************************************)
(* C14: on the first response of status 200, whatever its body, the call   *)
(* dispatches no further attempt and returns a success outcome with the    *)
(* correctness flag (false when the body has none), the rationale, the     *)
(* next link from url or else next_url, and the body.                      *)
(***************************************************************************)
C14_First200Succeeds ==
    \A i \in 1..Len(attempts) :
        attempts[i].status = 200 =>
            /\ i = Len(attempts)
            /\ rq_pc = "returned"
            /\ {"correct", "reason", "next_url", "data"} \subseteq DOMAIN rq_outcome
            /\ rq_outcome.status_code = 200
            /\ rq_outcome.data = ParseBody(response.body)
            /\ (response.body.json = "object"
                  /\ ~HasKey(response.body.d, "correct")) =>
                    rq_outcome.correct = Bool(FALSE)

(***************************************************************************)
(* Observations of the chain                                               *)
(***************************************************************************)
\* graph.invoke has returned for the latest task started and run_agent has
\* dealt with its final conversation, which messages holds
Completed == chain_pc # "invoke" /\ started # <<>> /\ err = ""

\* the next link of a tool result: content read as a JSON object, its url
\* or else its next_url when that begins with http, <<>> otherwise. The
\* tool results of the model are objects written by json.dumps or text
\* without a brace
ParsedLink(content) ==
    IF content = <<>> \/ content[1] # "{" THEN <<>>
    ELSE LET data == Loads(content)
             found_url == PyOr(PyGet(data, KeyUrl, None),
                               PyGet(data, KeyNextUrl, None))
         IN  IF /\ Truthy(found_url)
                /\ Len(found_url.s) >= 4
                /\ SubSeq(found_url.s, 1, 4) = <<"h","t","t","p">>
             THEN found_url.s
             ELSE <<>>

\* the tool results of ms that hold a next link
LinkHolders(ms) ==
    { i \in 1..Len(ms) : ms[i].type = "tool" /\ ParsedLink(ms[i].content) # <<>> }

MostRecentLink(ms) ==
    ParsedLink(ms[CHOOSE k \in LinkHolders(ms) :
                     \A j \in LinkHolders(ms) : j <= k].content)

(***************************************************************************)
(* C15: when a task's loop has ended and some tool result of the final     *)
(* conversation parses as an object with a next link, run_agent goes on    *)
(* with the link of the most recent such result as the next task and with  *)
(* the ordinal incremented by one.                                         *)
(***************************************************************************)
C15_FollowsToolLink ==
    (Completed /\ LinkHolders(messages) # {}) =>
        /\ chain_pc = "loop"
        /\ chain_url = MostRecentLink(messages)
        /\ quiz_number = Last(started).quiz_number + 1

(***************************************************************************)
(* C16: when the final conversation of a task holds no tool result with a  *)
(* next link and no URL other than the task's own, run_agent leaves its    *)
(* loop without an error and starts no further task.                       *)
(***************************************************************************)
NoOtherUrl(ms, url) == \A i \in 1..Len(ms) : ValidUrls(ms[i].content, url) = <<>>

C16_EndsWithoutLink ==
    (/\ Completed
     /\ LinkHolders(messages) = {}
     /\ NoOtherUrl(messages, Last(started).url)) =>
        /\ chain_pc = "returned"
        /\ caught = ""
        /\ quiz_number = Last(started).quiz_number

(***************************************************************************)
(* C17: an error raised during a task ends the chain: run_agent catches    *)
(* it, starts no task after the failing one and returns; nothing is        *)
(* raised to its caller.                                                   *)
(***************************************************************************)
C17_FatalErrorEndsChain ==
    /\ chain_pc # "raised"
    /\ err # "" => caught = err
    /\ caught # "" =>
          /\ chain_pc = "returned"
          /\ Len(started) = quiz_number
          /\ Last(started).quiz_number = quiz_number
          /\ Last(started).url = chain_url

\* the second task of a chain, reached through a URL of the first task's
\* last reply, has hit the step ceiling and run_agent has returned
C17_Witness ==
    /\ chain_pc = "returned"
    /\ err = "GraphRecursionError"
    /\ caught = "GraphRecursionError"
    /\ Len(started) = 2
    /\ started[1].url = Url1
    /\ started[2].url = Url2
    /\ quiz_number = 2

(***************************************************************************)
(* C18: no task executes while another does, and whenever agent_node       *)
(* reads url_time the pointer it finds names the task that reads and the   *)
(* start time it finds is that task's own.                                 *)
(***************************************************************************)
InTask(c) == chains[c].pc \in {"pointer", "task"}

C18_OneTaskAtATime ==
    /\ \A c \in 1..Len(chains) : \A d \in 1..Len(chains) :
          (InTask(c) /\ InTask(d)) => c = d
    /\ \A c \in 1..Len(chains) :
          chains[c].read # NoRead =>
              /\ chains[c].read.pointer = chains[c].url
              /\ chains[c].read.stamp = chains[c].start

(***************************************************************************)
(* C19: POST /solve answers 500 when no secret is configured and 403 when  *)
(* the request's secret differs from the configured one, and schedules     *)
(* nothing in both cases; on a match it answers status started with the    *)
(* request's url and schedules run_agent once with that url.               *)
(***************************************************************************)
C19_SolveAuthorises ==
    answer.n > 0 =>
        /\ ~Truthy(SECRET) => answer.status = 500
        /\ (Truthy(SECRET) /\ answer.request.secret # SECRET) =>
              answer.status = 403
        /\ answer.status \in {500, 403} =>
              /\ Len(scheduled) = answer.tasks_before
              /\ "status" \notin DOMAIN answer.body
        /\ (Truthy(SECRET) /\ answer.request.secret = SECRET) =>
              /\ answer.status = 200
              /\ answer.body = [status |-> "started", url |-> answer.request.url]
              /\ Len(scheduled) = answer.tasks_before + 1
              /\ Last(scheduled) = answer.request.url
        /\ Len(chains) = Len(scheduled)

\* a second request, with the configured secret, has been accepted and one
\* more run_agent has been scheduled, with its url
C19_Witness ==
    /\ SECRET = ConfiguredSecret
    /\ answer.n = 2
    /\ answer.status = 200
    /\ answer.body = [status |-> "started", url |-> Url2]
    /\ scheduled = <<Url1, Url2>>

(***************************************************************************)
(* C20: no tool raises on a failure of its work; for every failure each    *)
(* tool returns a structured result, a dict, that carries a success flag,  *)
(* which is False, and the error detail.                                   *)
(***************************************************************************)
Structured(result) ==
    /\ result.type = "dict"
    /\ "success" \in DOMAIN result.value
    /\ result.value.success = FALSE
    /\ "error" \in DOMAIN result.value

C20_FailuresAreStructured ==
    \A i \in 1..Len(tool_results) :
        tool_results[i].failed => Structured(tool_results[i].result)

(***************************************************************************)
(* C21: no record post_request writes to the log during a submission       *)
(* contains the configured secret or a string of more than 100 characters  *)
(* in full, wherever in the payload or in the response it occurs.          *)
(***************************************************************************)
C21_LogHidesSecretAndLongText ==
    \A i \in 1..Len(log) :
        /\ ~Contains(log[i], SECRET.s)
        /\ ~Contains(log[i], LongText)

(***************************************************************************)
(* C22: the sequence trim_messages returns for a conversation that holds   *)
(* the system instruction holds it exactly once, at position 0 and with    *)
(* unchanged content, whether or not trimming took place.                  *)
(***************************************************************************)
C22_SystemFirstOnce ==
    Invoked =>
        /\ Sent # <<>>
        /\ Sent[1] = SystemMessage
        /\ Sent[1] = Before[1]
        /\ \A i \in 2..Len(Sent) : Sent[i].type # "system"

\* the backend was invoked with a conversation that had been trimmed
C22_Witness ==
    /\ Invoked
    /\ estimated_tokens(Before) > max_tokens
    /\ Len(Sent) < Len(Before)

(***************************************************************************)
(* C23: when the estimated size of the conversation is within the ceiling  *)
(* trim_messages returns it unchanged, the same messages in the same       *)
(* order, and applying trim_messages to the result gives the same again.   *)
(***************************************************************************)
C23_UnderBudgetUnchanged ==
    (Invoked /\ estimated_tokens(Before) <= max_tokens) =>
        /\ Sent = Before
        /\ trim_messages(Sent) = Sent

\* the backend was invoked with a conversation of four messages that is
\* within the ceiling
C23_Witness ==
    /\ Invoked
    /\ estimated_tokens(Before) <= max_tokens
    /\ Len(Before) >= 4
    /\ Sent = Before

(***************************************************************************)
(* C24 as stated: the next state is a function of the latest message       *)
(* alone, and a reply with no tool invocations, no malformed status and    *)
(* no end token is routed to the agent node (REASON).                      *)
(***************************************************************************)
\* the next state as a function of one message
NextStateOf(m) ==
    IF m.tool_calls # NoCalls
    THEN IF AllComplete(m.tool_calls) THEN "tools" ELSE "handle_malformed"
    ELSE IF \E kw \in {KW_END, KW_COMPLETE, KW_FINISHED} :
                Contains(Upper(m.content), kw)
         THEN "END" ELSE "agent"

PlainReply(m) ==
    m.tool_calls = NoCalls /\ m.finish # "MALFORMED_FUNCTION_CALL"

C24_NoEndTokenToReason ==
    Routed =>
        LET m == Last(messages) IN
        /\ pc = NextStateOf(m)
        /\ (PlainReply(m) /\ ~Contains(Upper(m.content), KW_END)) => pc = "agent"

(***************************************************************************)
(* C24 amended: the next state is a function of the latest message alone,  *)
(* and a reply with no tool invocations, no malformed status and none of   *)
(* the end signals END, COMPLETE, FINISHED in its upper-cased text is      *)
(* routed to the agent node (REASON).                                      *)
(***************************************************************************)
C24_RouteByLatestMessage ==
    Routed =>
        LET m == Last(messages) IN
        /\ pc = NextStateOf(m)
        /\ (PlainReply(m) /\ ~HasEndSignal(m.content)) => pc = "agent"

\* a plain reply was routed to the agent node after an earlier reply, which
\* carried the text END with its tool invocations, had its tools executed
C24_Witness ==
    /\ pc = "agent"
    /\ Last(messages).type = "ai"
    /\ PlainReply(Last(messages))
    /\ ~HasEndSignal(Last(messages).content)
    /\ \E i \in 1..(Len(messages) - 1) :
          /\ messages[i].type = "ai"
          /\ messages[i].content = KW_END
          /\ messages[i].tool_calls # NoCalls

(***************************************************************************)
(* C25: the control loop starts in the agent node (REASON); every step of  *)
(* the tools node (ACT) and of handle_malformed (REPAIR) is followed by    *)
(* the agent node and by nothing else; a routing decision is taken only    *)
(* after a step of the agent node; and after END (DONE) no further step    *)
(* of the run is executed.                                                 *)
(***************************************************************************)
\* a node has been executed
NodeStep == steps' = steps + 1

C25_LoopOrder ==
    /\ pc = "agent"
    /\ [][ /\ (NodeStep /\ pc \in {"tools", "handle_malformed"}) => pc' = "agent"
           /\ pc' = "route" => (NodeStep /\ pc = "agent")
           /\ pc = "route" => pc' \in {"agent", "tools", "handle_malformed", "END"}
           /\ pc = "END" => (pc' = "END" /\ ~NodeStep /\ messages' = messages)
        ]_vars

\* a run has ended in END after a repair: agent, handle_malformed, agent
C25_Witness ==
    /\ pc = "END"
    /\ steps = 3
    /\ \E i \in 1..Len(messages) : messages[i].corrective

(***************************************************************************)
(* C26: within one run the conversation is append-only: every step of the  *)
(* agent node (its timeout branch included), of the tools node and of      *)
(* handle_malformed leaves the existing messages in place and in order     *)
(* and appends only the messages it produced, so a malformed reply stays   *)
(* in the history after its repair; compaction changes only the copy sent  *)
(* to the backend.                                                         *)
(***************************************************************************)
\* the messages a step has appended
Appended == SubSeq(messages', Len(messages) + 1, Len(messages'))

C26_AppendOnly ==
    [][ /\ Len(messages') >= Len(messages)
        /\ SubSeq(messages', 1, Len(messages)) = messages
        /\ (NodeStep /\ pc = "agent") =>
              \/ Appended = <<>> /\ pc' = "error"
              \/ Len(Appended) = 1 /\ Appended[1].type = "ai"
        /\ (NodeStep /\ pc = "tools") =>
              /\ Len(Appended) = Len(Last(messages).tool_calls)
              /\ \A i \in 1..Len(Appended) :
                    /\ Appended[i].type = "tool"
                    /\ Appended[i].tool_call_id = Last(messages).tool_calls[i].id
        /\ (NodeStep /\ pc = "handle_malformed") =>
              /\ Last(messages).type = "ai"
              /\ Appended = CorrectiveMessages(messages)
        /\ ~NodeStep => Appended = <<>>
      ]_vars

\* a malformed reply has been repaired and is still in the history, and
\* the backend has then been invoked with a trimmed copy
C26_Witness ==
    /\ Repaired # {}
    /\ Invoked
    /\ Len(Sent) < Len(Before)
    /\ \E i \in Repaired : messages[i + 1].corrective

(***************************************************************************)
(* C27: when no tool result yields a next link, the regex fallback of      *)
(* run_agent selects the last URL-shaped token of the final conversation   *)
(* that differs from the current task's URL. Stated for the final          *)
(* conversations without tool results, where the fallback is reached.      *)
(***************************************************************************)
\* the URL-shaped tokens of ms other than cur, in the order they occur
RECURSIVE OtherUrls(_, _)
OtherUrls(ms, cur) ==
    IF ms = <<>> THEN <<>>
    ELSE ValidUrls(ms[1].content, cur) \o OtherUrls(Tail(ms), cur)

C27_FallbackPicksLastUrl ==
    (/\ Completed
     /\ \A i \in 1..Len(messages) : messages[i].type # "tool"
     /\ OtherUrls(messages, Last(started).url) # <<>>) =>
        /\ chain_pc = "loop"
        /\ chain_url = Last(OtherUrls(messages, Last(started).url))

C28_RunTerminates ==
    /\ <>(pc \in {"END", "error"})
    /\ [](err = "GraphRecursionError" => steps = StepCeiling)

\* a run of malformed replies and repairs has been ended by the step
\* ceiling
C28_Witness ==
    /\ pc = "error"
    /\ err = "GraphRecursionError"
    /\ steps = StepCeiling
    /\ Repaired # {}
    /\ \A i \in 1..Len(messages) :
          messages[i].type = "ai" => ~AllComplete(messages[i].tool_calls)

(***************************************************************************)
(* C30: in the full conversation, whenever a model backend is invoked,     *)
(* every tool invocation carried by an earlier model reply has exactly one *)
(* tool message with its call id after that reply, whether the reply went  *)
(* to the tools node or to handle_malformed.                               *)
(***************************************************************************)
\* the tool messages of ms after position i that carry the call id
ResultsAfter(ms, i, id) ==
    { j \in (i + 1)..Len(ms) : ms[j].type = "tool" /\ ms[j].tool_call_id = id }

C30_EveryCallAnsweredOnce ==
    Invoked =>
        \A i \in 1..Len(Before) :
            Before[i].type = "ai" =>
                \A k \in 1..Len(Before[i].tool_calls) :
                    Cardinality(ResultsAfter(Before, i, Before[i].tool_calls[k].id)) = 1

\* a backend is invoked after a reply with two invocations, one of them
\* incomplete, has been answered by handle_malformed
C30_Witness ==
    /\ Invoked
    /\ \E i \in 1..Len(Before) :
          /\ Before[i].type = "ai"
          /\ Len(Before[i].tool_calls) = 2
          /\ ~AllComplete(Before[i].tool_calls)
          /\ \A k \in 1..2 :
                \E j \in ResultsAfter(Before, i, Before[i].tool_calls[k].id) :
                    Before[j].corrective

====
